---- MODULE Spec2Model ----
(***************************************************************************)
(* Model of src/app.py: the /api/dashboard-data pipeline                   *)
(* (get_dashboard_data, get_openaq_data, generate_fallback_data,           *)
(* derive_column_data, generate_alerts).                                   *)
(*                                                                         *)
(* Numbers.  A measurement value as the provider sends it is a decimal     *)
(* held in thousandths (150994 is 150.994); round(value, 2) gives          *)
(* hundredths (15099 is 150.99); int() truncates toward zero.  The noise   *)
(* factor of random.uniform(0.9, 1.1) is held in hundredths (97 is 0.97).  *)
(* An optional integer (iqa) is the empty set for None and {n} for n.      *)
(* A dict is a sequence of <<key, value>> entries in insertion order, as   *)
(* Python dicts keep it.  The 'unit' strings and the numeric values of the *)
(* derived column densities are left out: no step of the pipeline reads    *)
(* them back.                                                              *)
(***************************************************************************)
EXTENDS Integers, Sequences, FiniteSets, TLC

\* ---------------------------------------------------------------- bounds
\* most measurements in one provider payload (over all result entries)
MaxMeas == 2

\* ------------------------------------------------------ program constants
DangerAbove == 150
WarningAbove == 100
ForecastFloor == 10
DeltaMax == 20
FallbackPm25Min == 25
FallbackPm25Max == 80
DefaultPm25 == 40
AbsentMin == 30
AbsentMax == 90

\* ------------------------------------------------------------ basic values
None == {}
Some(n) == {n}
Val(s) == CHOOSE x \in s : TRUE

Max(a, b) == IF a >= b THEN a ELSE b

\* int(): truncation toward zero of n/d, d > 0
Trunc(n, d) == IF n >= 0 THEN n \div d ELSE -((-n) \div d)

\* round(): nearest integer to n/d, ties to even, d > 0
RoundNearest(n, d) ==
    LET q == n \div d
        r == n % d
    IN  IF 2 * r < d THEN q
        ELSE IF 2 * r > d THEN q + 1
        ELSE IF q % 2 = 0 THEN q ELSE q + 1

\* values a JSON field 'value' can hold, as the merge loop tells them apart
Num(n) == [k |-> "num", v |-> n]
NaN == [k |-> "nan", v |-> 0]
NotNumber == [k |-> "str", v |-> 0]
NoValue == [k |-> "missing", v |-> 0]

\* str.upper() on the parameter names the model draws
Upper(s) ==
    CASE s = "pm25" -> "PM25"
      [] s = "o3" -> "O3"
      [] OTHER -> s

NoParam == "<None>"
NoLocation == "<None>"
NoArg == "<None>"

\* ----------------------------------------------------------- input spaces
RawValues == {Num(-5000), Num(100000), Num(150994), Num(151000),
              NaN, NotNumber, NoValue}
Params == {"pm25", "o3", "PM25", NoParam}
Measurements == [parameter : Params, value : RawValues]
Locations == {NoLocation, "Station A"}
Args == {NoArg, "", "-23.55"}
NoiseSamples == {90, 97, 103, 110}
O3Samples == {4000, 15000}
NO2Samples == {1500, 6000}

SeqsUpTo(S, n) == UNION {[1..m -> S] : m \in 0..n}

\* ------------------------------------------------------------------ dicts
EmptyDict == << >>
HasKey(d, k) == \E i \in 1..Len(d) : d[i].key = k
Get(d, k) == d[CHOOSE i \in 1..Len(d) : d[i].key = k].value
Put(d, k, x) ==
    IF HasKey(d, k)
    THEN [i \in 1..Len(d) |-> IF d[i].key = k THEN [key |-> k, value |-> x] ELSE d[i]]
    ELSE Append(d, [key |-> k, value |-> x])
Keys(d) == {d[i].key : i \in 1..Len(d)}

\* ------------------------------------------- get_openaq_data: merge loop
\* round(measurement.get('value', 0), 2): the rounded value, or the
\* exception round() raises on a value that is not a number
RoundValue(x) ==
    CASE x.k = "missing" -> [exc |-> "", value |-> Num(0)]
      [] x.k = "str" -> [exc |-> "TypeError", value |-> x]
      [] x.k = "nan" -> [exc |-> "", value |-> NaN]
      [] OTHER -> [exc |-> "", value |-> Num(RoundNearest(x.v, 10))]

\* int(value) on a rounded value
IntOf(x) ==
    IF x.k = "nan" THEN [exc |-> "ValueError", n |-> 0]
    ELSE [exc |-> "", n |-> Trunc(x.v, 100)]

\* 'param not in found_pollutants' (line 61): the raw parameter name is
\* looked up among keys that were stored upper-cased
NotYetFound(found, param) == ~HasKey(found, param)

\* lines 60-66 for one measurement; st = [found, main_iqa, exc]
MergeMeasurement(st, m) ==
    IF st.exc # "" THEN st
    ELSE IF ~NotYetFound(st.found, m.parameter) THEN st
    ELSE LET r == RoundValue(m.value)
         IN  IF r.exc # "" THEN [st EXCEPT !.exc = r.exc]
             ELSE IF m.parameter = NoParam THEN [st EXCEPT !.exc = "AttributeError"]
             ELSE LET found2 == Put(st.found, Upper(m.parameter), r.value)
                  IN  IF m.parameter = "pm25" /\ st.main_iqa = None
                      THEN LET n == IntOf(r.value)
                           IN  IF n.exc # ""
                               THEN [found |-> found2, main_iqa |-> None, exc |-> n.exc]
                               ELSE [found |-> found2, main_iqa |-> Some(n.n), exc |-> ""]
                      ELSE [st EXCEPT !.found = found2]

\* line 59: the measurements of one result entry, in order
RECURSIVE MergeMeasurements(_, _, _)
MergeMeasurements(st, ms, j) ==
    IF j > Len(ms) THEN st
    ELSE MergeMeasurements(MergeMeasurement(st, ms[j]), ms, j + 1)

\* line 58: the result entries, in order
RECURSIVE MergeResults(_, _, _)
MergeResults(st, results, i) ==
    IF i > Len(results) THEN st
    ELSE MergeResults(MergeMeasurements(st, results[i].measurements, 1), results, i + 1)

\* mutant: the main index is left unresolved when no pm25 measurement set it
ResolveMainIqa_skip(st) == st

\* lines 68-70: with no pm25 measurement the main index is the value of the
\* first inserted pollutant
ResolveMainIqa(st) ==
    IF st.exc # "" THEN st
    ELSE IF st.main_iqa = None /\ st.found # EmptyDict
    THEN LET n == IntOf(st.found[1].value)
         IN  IF n.exc # "" THEN [st EXCEPT !.exc = n.exc]
             ELSE [st EXCEPT !.main_iqa = Some(n.n)]
    ELSE st

\* line 57
LocationOf(results) ==
    IF results[1].location = NoLocation THEN "Local Desconhecido"
    ELSE results[1].location

\* mutant: an empty mapping is returned as a real Reading
NoPollutants_never(found) == FALSE

\* line 72: 'if not found_pollutants'
NoPollutants(found) == found = EmptyDict

\* lines 54-82 on a payload: what get_openaq_data does next,
\* [fallback, label] to call generate_fallback_data(label) or the locals
\* of a real Reading
ParsePayload(d) ==
    LET fb(label) == [fallback |-> TRUE, label |-> label, found |-> EmptyDict,
                      main_iqa |-> None, location_name |-> "Sua Localização"]
    IN  CASE d.kind = "not_object" -> fb("Sua Localização")
          [] d.kind = "results_not_list" -> fb("Sua Localização")
          [] d.kind = "no_results" -> fb("Sua Localização")
          [] OTHER ->
               LET st0 == [found |-> EmptyDict, main_iqa |-> None, exc |-> ""]
                   st == ResolveMainIqa(MergeResults(st0, d.results, 1))
               IN  IF st.exc # "" THEN fb("Sua Localização")
                   ELSE IF NoPollutants(st.found) THEN fb(LocationOf(d.results))
                   ELSE [fallback |-> FALSE, label |-> "", found |-> st.found,
                         main_iqa |-> st.main_iqa,
                         location_name |-> LocationOf(d.results)]

\* ------------------------------------------------ generate_fallback_data
FallbackSource == "OpenAQ (Dados Indisponíveis na Região)"
RealSource == "OpenAQ (Real)"

FallbackReading(location_name, pm25_value, o3, no2) ==
    [iqa |-> Some(pm25_value),
     pollutants |-> << [key |-> "PM25", value |-> Num(pm25_value * 100)],
                       [key |-> "O3", value |-> Num(o3)],
                       [key |-> "NO2", value |-> Num(no2)] >>,
     location |-> location_name,
     source |-> FallbackSource]

\* ---------------------------------------------------- derive_column_data
\* line 89: base_pollutants.get('PM25', {}).get('value', 40)
Pm25Baseline(base_pollutants) ==
    IF HasKey(base_pollutants, "PM25") THEN Get(base_pollutants, "PM25")
    ELSE Num(DefaultPm25 * 100)

\* mutant: the product is rounded to the nearest integer
DerivedIqa_round(pm25, noise) == RoundNearest(pm25 * noise, 10000)

\* line 104: int(pm25_value * noise); pm25 in hundredths, noise in hundredths
DerivedIqa(pm25, noise) == Trunc(pm25 * noise, 10000)

DerivedKeys(sensor_name) ==
    IF sensor_name = "TEMPO"
    THEN {"NO2 (Coluna Total)", "O3 (Coluna Total)", "HCHO (Coluna Total)"}
    ELSE {"NO2 (Coluna Total)", "O3 (Coluna Total)"}

\* the Reading derive_column_data returns, or the exception int() raises
\* on a NaN product
DeriveColumnData(sensor_name, base_pollutants, noise) ==
    LET pm25 == Pm25Baseline(base_pollutants)
    IN  IF pm25.k = "nan"
        THEN [exc |-> "ValueError", iqa |-> None, pollutants |-> DerivedKeys(sensor_name),
              source |-> sensor_name]
        ELSE [exc |-> "", iqa |-> Some(DerivedIqa(pm25.v, noise)),
              pollutants |-> DerivedKeys(sensor_name),
              source |-> sensor_name]

\* mutant: the thresholds are inclusive
generate_alerts_ge(iqa) ==
    IF iqa = None THEN << >>
    ELSE IF Val(iqa) >= DangerAbove THEN << "danger" >>
    ELSE IF Val(iqa) >= WarningAbove THEN << "warning" >>
    ELSE << >>

\* -------------------------------------------------------- generate_alerts
generate_alerts(iqa) ==
    IF iqa = None THEN << >>
    ELSE IF Val(iqa) > DangerAbove THEN << "danger" >>
    ELSE IF Val(iqa) > WarningAbove THEN << "warning" >>
    ELSE << >>

\* ------------------------------------------- get_dashboard_data: forecast
\* line 131: the range of the one random.randint the forecast makes, and
\* the predicted index for its draw
ForecastDraws(base_iqa) ==
    IF base_iqa # None THEN (-DeltaMax)..DeltaMax ELSE AbsentMin..AbsentMax

\* mutant: the forecast is not clamped to the floor
PredictedIqa_nofloor(base_iqa, draw) ==
    IF base_iqa # None THEN Val(base_iqa) + draw ELSE draw

PredictedIqa(base_iqa, draw) ==
    IF base_iqa # None THEN Max(ForecastFloor, Val(base_iqa) + draw) ELSE draw

\* ------------------------------------------------------------------ state
VARIABLES
    api_key,          \* os.getenv("OPENAQ_API_KEY") is set (read-only configuration)
    pc,               \* position of the request being handled
    lat, lon,         \* request.args.get('lat'), request.args.get('lon')
    netCalls,         \* requests.get calls made for this request
    fallbackCalls,    \* generate_fallback_data calls made for this request
    deriveCalls,      \* derive_column_data calls made for this request
    data,             \* get_openaq_data: response.json()
    label,            \* argument of the pending generate_fallback_data call
    found_pollutants, \* get_openaq_data locals (lines 35-37)
    location_name,
    main_iqa,
    openaq_data,      \* get_dashboard_data locals
    tempo_data,
    pandora_data,
    response,         \* what the caller receives
    call              \* a direct call of one function: its arguments and result

vars == << call, api_key, pc, lat, lon, netCalls, fallbackCalls, deriveCalls, data, label,
           found_pollutants, location_name, main_iqa, openaq_data, tempo_data,
           pandora_data, response >>

NoData == [kind |-> "none", results |-> << >>]
NoReading == [source |-> "<none>"]
NoResponse == [status |-> 0]
NoCall == [fn |-> ""]

\* provider payloads whose 'results' is missing, empty or not as expected
BadPayloads ==
    {[kind |-> k, results |-> << >>] : k \in {"not_object", "results_not_list", "no_results"}}

\* provider payload with the measurements ms in one result entry (cut < 0)
\* or in two, the first holding ms[1..cut]; only the first entry's location
\* is read (line 57)
Payload(loc, ms, cut) ==
    [kind |-> "results",
     results |-> IF cut < 0
                 THEN << [location |-> loc, measurements |-> ms] >>
                 ELSE << [location |-> loc, measurements |-> SubSeq(ms, 1, cut)],
                         [location |-> NoLocation,
                          measurements |-> SubSeq(ms, cut + 1, Len(ms))] >>]

Locals0 ==
    /\ found_pollutants' = EmptyDict
    /\ location_name' = "Sua Localização"
    /\ main_iqa' = None

Init ==
    /\ api_key \in BOOLEAN
    /\ pc = "idle"
    /\ lat = NoArg
    /\ lon = NoArg
    /\ netCalls = 0
    /\ fallbackCalls = 0
    /\ deriveCalls = 0
    /\ data = NoData
    /\ label = ""
    /\ found_pollutants = EmptyDict
    /\ location_name = "Sua Localização"
    /\ main_iqa = None
    /\ openaq_data = NoReading
    /\ tempo_data = NoReading
    /\ pandora_data = NoReading
    /\ response = NoResponse
    /\ call = NoCall

\* mutant: only lat is validated
Request_latOnly ==
    /\ pc \in {"idle", "done"}
    /\ \E la \in Args, lo \in Args :
         /\ lat' = la
         /\ lon' = lo
         /\ IF la \in {NoArg, ""}
            THEN /\ response' = [status |-> 400,
                                 error |-> "Latitude e Longitude são obrigatórias"]
                 /\ pc' = "done"
            ELSE /\ response' = NoResponse
                 /\ pc' = "check_key"
    /\ netCalls' = 0
    /\ fallbackCalls' = 0
    /\ deriveCalls' = 0
    /\ data' = NoData
    /\ label' = ""
    /\ Locals0
    /\ openaq_data' = NoReading
    /\ tempo_data' = NoReading
    /\ pandora_data' = NoReading
    /\ UNCHANGED << call, api_key >>

\* lines 118-122: a request arrives; without lat or lon it is answered 400
Request ==
    /\ pc \in {"idle", "done"}
    /\ \E la \in Args, lo \in Args :
         /\ lat' = la
         /\ lon' = lo
         /\ IF la \in {NoArg, ""} \/ lo \in {NoArg, ""}
            THEN /\ response' = [status |-> 400,
                                 error |-> "Latitude e Longitude são obrigatórias"]
                 /\ pc' = "done"
            ELSE /\ response' = NoResponse
                 /\ pc' = "check_key"
    /\ netCalls' = 0
    /\ fallbackCalls' = 0
    /\ deriveCalls' = 0
    /\ data' = NoData
    /\ label' = ""
    /\ Locals0
    /\ openaq_data' = NoReading
    /\ tempo_data' = NoReading
    /\ pandora_data' = NoReading
    /\ UNCHANGED << call, api_key >>

\* lines 124, 33-43: get_openaq_data is entered; without a credential it
\* goes to generate_fallback_data('Erro de Configuração')
CheckKey ==
    /\ pc = "check_key"
    /\ Locals0
    /\ IF ~api_key
       THEN /\ label' = "Erro de Configuração"
            /\ pc' = "fallback"
       ELSE /\ label' = ""
            /\ pc' = "request"
    /\ UNCHANGED << call, api_key, lat, lon, netCalls, fallbackCalls, deriveCalls, data,
                    openaq_data, tempo_data, pandora_data, response >>

\* mutant: a failed attempt is retried (up to three attempts)
HttpGet_retry ==
    /\ pc = "request"
    /\ netCalls' = netCalls + 1
    /\ \/ /\ \E failure \in {"transport", "http_status", "not_json"} : TRUE
          /\ data' = NoData
          /\ IF netCalls + 1 < 3
             THEN label' = "" /\ pc' = "request"
             ELSE label' = "Sua Localização" /\ pc' = "fallback"
       \/ /\ \/ data' \in BadPayloads
             \/ \E ms \in SeqsUpTo(Measurements, MaxMeas), loc \in Locations :
                  \E cut \in (-1)..Len(ms) : data' = Payload(loc, ms, cut)
          /\ label' = ""
          /\ pc' = "parse"
    /\ UNCHANGED << call, api_key, lat, lon, fallbackCalls, deriveCalls, found_pollutants,
                    location_name, main_iqa, openaq_data, tempo_data, pandora_data,
                    response >>

\* lines 50-54, 77-82: the one requests.get; a transport error, a non-2xx
\* status (raise_for_status) and a body that is not JSON are caught and lead
\* to generate_fallback_data("Sua Localização")
HttpGet ==
    /\ pc = "request"
    /\ netCalls' = netCalls + 1
    /\ \/ /\ \E failure \in {"transport", "http_status", "not_json"} : TRUE
          /\ label' = "Sua Localização"
          /\ data' = NoData
          /\ pc' = "fallback"
       \/ /\ \/ data' \in BadPayloads
             \/ \E ms \in SeqsUpTo(Measurements, MaxMeas), loc \in Locations :
                  \E cut \in (-1)..Len(ms) : data' = Payload(loc, ms, cut)
          /\ label' = ""
          /\ pc' = "parse"
    /\ UNCHANGED << call, api_key, lat, lon, fallbackCalls, deriveCalls, found_pollutants,
                    location_name, main_iqa, openaq_data, tempo_data, pandora_data,
                    response >>

\* lines 56-82: the payload is merged into the locals, or a fallback is chosen
Parse ==
    /\ pc = "parse"
    /\ LET p == ParsePayload(data)
       IN  IF p.fallback
           THEN /\ label' = p.label
                /\ data' = NoData
                /\ Locals0
                /\ pc' = "fallback"
           ELSE /\ found_pollutants' = p.found
                /\ main_iqa' = p.main_iqa
                /\ location_name' = p.location_name
                /\ UNCHANGED << data, label >>
                /\ pc' = "return"
    /\ UNCHANGED << call, api_key, lat, lon, netCalls, fallbackCalls, deriveCalls,
                    openaq_data, tempo_data, pandora_data, response >>

\* line 84: the real Reading is returned to get_dashboard_data
ReturnReal ==
    /\ pc = "return"
    /\ openaq_data' = [iqa |-> main_iqa, pollutants |-> found_pollutants,
                       location |-> location_name, source |-> RealSource]
    /\ data' = NoData
    /\ Locals0
    /\ pc' = "derive_tempo"
    /\ UNCHANGED << call, api_key, lat, lon, netCalls, fallbackCalls, deriveCalls, label,
                    tempo_data, pandora_data, response >>

\* lines 17-31: generate_fallback_data(label) and its return to
\* get_dashboard_data
GenerateFallback ==
    /\ pc = "fallback"
    /\ \E pm25_value \in FallbackPm25Min..FallbackPm25Max, o3 \in O3Samples,
          no2 \in NO2Samples :
         openaq_data' = FallbackReading(label, pm25_value, o3, no2)
    /\ fallbackCalls' = fallbackCalls + 1
    /\ label' = ""
    /\ pc' = "derive_tempo"
    /\ UNCHANGED << call, api_key, lat, lon, netCalls, deriveCalls, data, found_pollutants,
                    location_name, main_iqa, tempo_data, pandora_data, response >>

ServerError == [status |-> 500]

\* lines 125-127: derive_column_data("TEMPO", base_pollutants); an exception
\* it raises leaves the handler and the caller gets a 500
DeriveTempo ==
    /\ pc = "derive_tempo"
    /\ deriveCalls' = deriveCalls + 1
    /\ \E noise \in NoiseSamples :
         LET r == DeriveColumnData("TEMPO", openaq_data.pollutants, noise)
         IN  IF r.exc # ""
             THEN /\ response' = ServerError
                  /\ tempo_data' = NoReading
                  /\ pc' = "done"
             ELSE /\ tempo_data' = [iqa |-> r.iqa, pollutants |-> r.pollutants,
                                    source |-> "TEMPO (Derivado)"]
                  /\ response' = response
                  /\ pc' = "derive_pandora"
    /\ UNCHANGED << call, api_key, lat, lon, netCalls, fallbackCalls, data, label,
                    found_pollutants, location_name, main_iqa, openaq_data,
                    pandora_data >>

\* line 128: derive_column_data("PANDORA", base_pollutants)
DerivePandora ==
    /\ pc = "derive_pandora"
    /\ deriveCalls' = deriveCalls + 1
    /\ \E noise \in NoiseSamples :
         LET r == DeriveColumnData("PANDORA", openaq_data.pollutants, noise)
         IN  IF r.exc # ""
             THEN /\ response' = ServerError
                  /\ pandora_data' = NoReading
                  /\ pc' = "done"
             ELSE /\ pandora_data' = [iqa |-> r.iqa, pollutants |-> r.pollutants,
                                      source |-> "PANDORA (Derivado)"]
                  /\ response' = response
                  /\ pc' = "respond"
    /\ UNCHANGED << call, api_key, lat, lon, netCalls, fallbackCalls, data, label,
                    found_pollutants, location_name, main_iqa, openaq_data,
                    tempo_data >>

\* lines 130-148: forecast, alerts and the 200 response
Respond ==
    /\ pc = "respond"
    /\ LET base_iqa == openaq_data.iqa
       IN  \E draw \in ForecastDraws(base_iqa) :
             response' =
                  [status |-> 200,
                   location_name |-> openaq_data.location,
                   alerts |-> generate_alerts(base_iqa),
                   sensors |-> [openaq |-> openaq_data, tempo |-> tempo_data,
                                pandora |-> pandora_data],
                   forecast |-> [predicted_iqa_24h |-> PredictedIqa(base_iqa, draw),
                                 message |-> "As condições devem permanecer estáveis nas próximas 24 horas."],
                   map_info |-> [search_radius_km |-> 100]]
    /\ pc' = "done"
    /\ UNCHANGED << call, api_key, lat, lon, netCalls, fallbackCalls, deriveCalls, data, label,
                    found_pollutants, location_name, main_iqa, openaq_data, tempo_data,
                    pandora_data >>

Next ==
    \/ Request
    \/ CheckKey
    \/ HttpGet
    \/ Parse
    \/ ReturnReal
    \/ GenerateFallback
    \/ DeriveTempo
    \/ DerivePandora
    \/ Respond

Spec == Init /\ [][Next]_vars

\* --------------------------------------------- the functions called alone
\* largest index handed to generate_alerts
MaxIqa == 200

IqaInputs == {None} \cup {Some(n) : n \in (-5)..MaxIqa}

\* pollutant mappings handed to derive_column_data: without PM25, or with a
\* PM25 value (hundredths) as get_openaq_data can store it
Pm25Inputs == {Num(-500), Num(0), Num(400), Num(2500), Num(4000), Num(10000),
               Num(15099), NaN}
BaseInputs ==
    {EmptyDict, << [key |-> "O3", value |-> Num(4000)] >>}
    \cup {<< [key |-> "PM25", value |-> x] >> : x \in Pm25Inputs}
    \cup {<< [key |-> "O3", value |-> Num(4000)], [key |-> "PM25", value |-> x] >> :
            x \in Pm25Inputs}

\* lines 108-113
CallGenerateAlerts ==
    /\ \E iqa \in IqaInputs :
         call' = [fn |-> "generate_alerts", iqa |-> iqa, result |-> generate_alerts(iqa)]
    /\ UNCHANGED << api_key, pc, lat, lon, netCalls, fallbackCalls, deriveCalls, data,
                    label, found_pollutants, location_name, main_iqa, openaq_data,
                    tempo_data, pandora_data, response >>

\* lines 86-106; random.uniform(0.9, 1.1) drawn in hundredths
CallDeriveColumnData ==
    /\ \E sensor_name \in {"TEMPO", "PANDORA"}, base_pollutants \in BaseInputs,
          noise \in 90..110 :
         call' = [fn |-> "derive_column_data", sensor_name |-> sensor_name,
                  base_pollutants |-> base_pollutants, noise |-> noise,
                  result |-> DeriveColumnData(sensor_name, base_pollutants, noise)]
    /\ UNCHANGED << api_key, pc, lat, lon, netCalls, fallbackCalls, deriveCalls, data,
                    label, found_pollutants, location_name, main_iqa, openaq_data,
                    tempo_data, pandora_data, response >>

UnitNext ==
    \/ CallGenerateAlerts
    \/ CallDeriveColumnData

SpecUnit == Init /\ [][UnitNext]_vars

\* ================================================================= claims
ValidArgs == lat \notin {NoArg, ""} /\ lon \notin {NoArg, ""}

\* all measurements of a payload in the order the loops visit them
RECURSIVE Flatten(_, _)
Flatten(results, i) ==
    IF i > Len(results) THEN << >>
    ELSE results[i].measurements \o Flatten(results, i + 1)

\* the earliest measurement of a payload stored under key k
FirstFor(ms, k) ==
    ms[CHOOSE i \in 1..Len(ms) :
         /\ Upper(ms[i].parameter) = k
         /\ \A j \in 1..(i - 1) : Upper(ms[j].parameter) # k]

\* C1: once lat and lon are both non-empty, the request ends in a 200
\* response with exactly the sensors openaq, tempo and pandora and a
\* forecast, whatever the provider call did: no exception reaches the caller.
C1_AlwaysDashboardResponse ==
    (pc = "done" /\ ValidArgs) =>
        /\ response.status = 200
        /\ DOMAIN response.sensors = {"openaq", "tempo", "pandora"}
        /\ "forecast" \in DOMAIN response

\* C2: when get_openaq_data is about to return a real Reading, the value
\* stored under each upper-cased parameter name is the rounded value of the
\* earliest measurement of that parameter in the payload (first-seen-wins).
C2_FirstSeenWins ==
    pc = "return" =>
        \A i \in 1..Len(found_pollutants) :
            found_pollutants[i].value =
                RoundValue(FirstFor(Flatten(data.results, 1),
                                    found_pollutants[i].key).value).value

\* C3: generate_alerts maps an absent index to no alert, an index above 150
\* to exactly one danger alert, an index above 100 and at most 150 to
\* exactly one warning alert, and an index of at most 100 to no alert; it
\* never returns more than one alert.
C3_AlertThresholds ==
    call.fn = "generate_alerts" =>
        LET iqa == call.iqa
            alerts == call.result
        IN  /\ Len(alerts) <= 1
            /\ iqa = None => alerts = << >>
            /\ iqa # None =>
                 /\ Val(iqa) > 150 => alerts = << "danger" >>
                 /\ (Val(iqa) > 100 /\ Val(iqa) <= 150) => alerts = << "warning" >>
                 /\ Val(iqa) <= 100 => alerts = << >>

C3_Witness ==
    /\ call.fn = "generate_alerts"
    /\ call.iqa = Some(150)
    /\ call.result = << "warning" >>

\* C4: in every dashboard response predicted_iqa_24h is at least 10; with a
\* primary index it is max(10, base + delta) for an integer delta in
\* [-20, 20], hence within [base - 20, base + 20] when base >= 30; without
\* one it lies in [30, 90].
C4_ForecastBounds ==
    response.status = 200 =>
        LET base == response.sensors.openaq.iqa
            predicted == response.forecast.predicted_iqa_24h
        IN  /\ predicted >= 10
            /\ base # None =>
                 /\ \E delta \in (-20)..20 :
                      predicted = IF Val(base) + delta > 10 THEN Val(base) + delta ELSE 10
                 /\ Val(base) >= 30 =>
                      (predicted >= Val(base) - 20 /\ predicted <= Val(base) + 20)
            /\ base = None => (predicted >= 30 /\ predicted <= 90)

\* a response whose forecast was clamped to the floor
C4_Witness ==
    /\ response.status = 200
    /\ response.sensors.openaq.iqa # None
    /\ Val(response.sensors.openaq.iqa) < 10
    /\ response.forecast.predicted_iqa_24h = 10

\* C5: per request at most one network request is made; none without a
\* credential, where the Reading is a fallback labelled as a configuration
\* error, and exactly one with a credential, after which a failure or an
\* empty result leads to the fallback with no second attempt.
C5_OneAttempt ==
    /\ netCalls <= 1
    /\ ~api_key =>
         /\ netCalls = 0
         /\ openaq_data # NoReading =>
              /\ openaq_data.source = FallbackSource
              /\ openaq_data.location = "Erro de Configuração"
    /\ (api_key /\ pc \in {"parse", "return", "fallback", "derive_tempo",
                           "derive_pandora", "respond"}) => netCalls = 1
    /\ (api_key /\ pc = "done" /\ ValidArgs) => netCalls = 1
    /\ fallbackCalls <= 1

\* a request answered from the fallback after the one attempt failed
C5_Witness ==
    /\ api_key
    /\ pc = "done"
    /\ response.status = 200
    /\ netCalls = 1
    /\ fallbackCalls = 1
    /\ response.sensors.openaq.location = "Sua Localização"

\* C6: a request without lat or without lon (or with an empty one) is
\* answered 400 with an error field, and nothing else happens: no provider
\* request, no fallback Reading, no derivation, no alert or forecast.
C6_MissingArgs ==
    (pc # "idle" /\ ~ValidArgs) =>
        /\ pc = "done"
        /\ response.status = 400
        /\ DOMAIN response = {"status", "error"}
        /\ netCalls = 0
        /\ fallbackCalls = 0
        /\ deriveCalls = 0
        /\ openaq_data = NoReading
        /\ tempo_data = NoReading
        /\ pandora_data = NoReading

C6_Witness ==
    /\ pc = "done"
    /\ lat = "-23.55"
    /\ lon = ""
    /\ response.status = 400

\* C7: a Reading tagged 'OpenAQ (Real)' has at least one pollutant; a payload
\* with no result entry, or whose entries yield no pollutant, never reaches
\* the return of a real Reading, and every other Reading is a fallback
\* holding PM25, O3 and NO2.
C7_RealHasPollutants ==
    /\ pc = "return" =>
         /\ found_pollutants # EmptyDict
         /\ data.kind = "results"
         /\ Len(Flatten(data.results, 1)) > 0
    /\ openaq_data # NoReading =>
         IF openaq_data.source = RealSource
         THEN Len(openaq_data.pollutants) > 0
         ELSE /\ openaq_data.source = FallbackSource
              /\ {"PM25", "O3", "NO2"} \subseteq Keys(openaq_data.pollutants)

\* a fallback Reading for result entries that held no measurement: it
\* carries the location of the first entry
C7_Witness ==
    /\ openaq_data # NoReading
    /\ openaq_data.source = FallbackSource
    /\ openaq_data.location = "Station A"
    /\ Keys(openaq_data.pollutants) = {"PM25", "O3", "NO2"}

\* C8: in every dashboard response the iqa of the primary Reading and of
\* both derived Readings, when present, is a non-negative integer.
C8_IqaNonNegative ==
    response.status = 200 =>
        \A name \in {"openaq", "tempo", "pandora"} :
            LET iqa == response.sensors[name].iqa
            IN  iqa # None => Val(iqa) >= 0

\* C9: derive_column_data takes the PM25 value of the mapping, or 40 without
\* one, and returns as index the product pm25 * noise rounded to the nearest
\* integer.
C9_DerivedIsRounded ==
    (call.fn = "derive_column_data" /\ call.result.exc = "") =>
        LET pm25 == IF "PM25" \in Keys(call.base_pollutants)
                    THEN Get(call.base_pollutants, "PM25").v
                    ELSE 4000
        IN  call.result.iqa = Some(RoundNearest(pm25 * call.noise, 10000))

\* C9 amended: derive_column_data takes the PM25 value of the mapping, or 40
\* without one, and returns as index the product pm25 * noise truncated
\* toward zero: the integer n of the product's sign with
\* |n| <= |pm25 * noise| < |n| + 1.
C9_DerivedIsTruncated ==
    (call.fn = "derive_column_data" /\ call.result.exc = "") =>
        LET pm25 == IF "PM25" \in Keys(call.base_pollutants)
                    THEN Get(call.base_pollutants, "PM25").v
                    ELSE 4000
            product == pm25 * call.noise
        IN  /\ call.result.iqa # None
            /\ LET n == Val(call.result.iqa)
               IN  IF product >= 0
                   THEN n >= 0 /\ n * 10000 <= product /\ product < (n + 1) * 10000
                   ELSE n <= 0 /\ n * 10000 >= product /\ product > (n - 1) * 10000

\* a call whose product 40 * 0.97 = 38.8 is returned as 38
C9_Witness ==
    /\ call.fn = "derive_column_data"
    /\ "PM25" \notin Keys(call.base_pollutants)
    /\ call.noise = 97
    /\ call.result.iqa = Some(38)

\* C10: every Reading get_openaq_data returns has an integer iqa: without a
\* pm25 measurement the main index is the truncated value of the first
\* inserted pollutant, and an empty mapping leads to a fallback; so every
\* dashboard response is built from a present index.
C10_IqaPresent ==
    /\ pc = "return" =>
         /\ main_iqa # None
         /\ (\A i \in 1..Len(Flatten(data.results, 1)) :
                Flatten(data.results, 1)[i].parameter # "pm25") =>
              LET first == found_pollutants[1].value
              IN  /\ first.k = "num"
                  /\ main_iqa = Some(IF first.v >= 0 THEN first.v \div 100
                                     ELSE -((-first.v) \div 100))
    /\ openaq_data # NoReading => openaq_data.iqa # None
    /\ response.status = 200 => response.sensors.openaq.iqa # None

\* a real Reading about to be returned whose index comes from a pollutant
\* other than pm25
C10_Witness ==
    /\ pc = "return"
    /\ \A i \in 1..Len(Flatten(data.results, 1)) :
          Flatten(data.results, 1)[i].parameter # "pm25"
    /\ found_pollutants[1].key = "O3"
    /\ main_iqa = Some(150)

====
